---- MODULE Spec2Model ----
(***************************************************************************)
(* Model of crab/agent.py: the conversation loop (main), the response      *)
(* parser (extract_json_fields), the classifier (is_dangerous) and the     *)
(* approval gate (wait_for_approval) that polls two marker files.          *)
(*                                                                         *)
(* Text is a sequence of tokens (strings).  A command is a sequence of     *)
(* one-character tokens; a backend reply is a sequence of lexical tokens:  *)
(* "{", "}", ",", " " (whitespace), JSON members and prose words.          *)
(* A JSON value is a record [t |-> type, s |-> payload tokens].            *)
(***************************************************************************)
EXTENDS Integers, Sequences, FiniteSets, TLC

VARIABLES
    pc,         \* position of main: loop, call, reply, branch, gate, exec, final, done, fault
    hitl,       \* hitl_enabled (agent.py:141)
    iters,      \* iters (agent.py:157)
    messages,   \* messages (agent.py:152)
    response,   \* response (agent.py:161), a JSON value
    cmd,        \* cmd (agent.py:173), a JSON value; JNull when no command
    waited,     \* waited (agent.py:106)
    lockFile,   \* /tmp/hermit_approval.lock exists
    denyFile,   \* /tmp/hermit_deny.lock exists
    approved,   \* value returned by wait_for_approval: "none" until it returns
    stdout,     \* the final results printed (agent.py:207, 215)
    callLog,    \* history: one [sent, reply] per call_llm
    events,     \* history: [it, ev, danger] for head, call, cmd, nocmd, gate, approved, denied,
                \* an outcome of the executor, emit
    gate,       \* history of the running gate: polls made, marker observed, removals
    peer        \* a second agent instance on the same marker paths: its position in
                \* wait_for_approval, its waited, the value returned, its removals

vars == <<pc, hitl, iters, messages, response, cmd, waited, lockFile, denyFile,
          approved, stdout, callLog, events, gate, peer>>

----------------------------------------------------------------------------
(* Program constants *)

\* max_iters (agent.py:156)
max_iters == 5

\* while waited < 600 (agent.py:107)
PollCeiling == 600

(* Bounds of the exploration *)

\* passes of one run that leave the plain path: an approval request, or an
\* execution that ends other than with output
MaxDetours == 1

----------------------------------------------------------------------------
(* JSON values *)

JStr(s) == [t |-> "str", s |-> s]
JNum(d) == [t |-> "num", s |-> d]
JList(items) == [t |-> "list", s |-> items]
JNull == [t |-> "null", s |-> <<>>]

\* Python truth value of a JSON value (agent.py:64, 82, 174)
Truthy(v) ==
    CASE v.t = "str"  -> v.s # <<>>
      [] v.t = "num"  -> v.s # <<"0">>
      [] v.t = "list" -> v.s # <<>>
      [] OTHER        -> FALSE

\* the value has the str methods strip / split (agent.py:96, 164)
IsText(v) == v.t = "str"

----------------------------------------------------------------------------
(* Text helpers *)

IsSpace(c) == c \in {" ", "\n", "\t"}

RECURSIVE LStrip(_)
LStrip(s) == IF s # <<>> /\ IsSpace(Head(s)) THEN LStrip(Tail(s)) ELSE s

RECURSIVE RStrip(_)
RStrip(s) ==
    IF s # <<>> /\ IsSpace(s[Len(s)]) THEN RStrip(SubSeq(s, 1, Len(s) - 1)) ELSE s

\* str.strip()
Strip(s) == RStrip(LStrip(s))

\* the longest prefix without whitespace
RECURSIVE Word(_)
Word(s) == IF s = <<>> \/ IsSpace(Head(s)) THEN <<>> ELSE <<Head(s)>> \o Word(Tail(s))

\* str.startswith
StartsWith(s, p) == Len(p) <= Len(s) /\ SubSeq(s, 1, Len(p)) = p

Positions(s, c) == {i \in 1..Len(s) : s[i] = c}

Min(S) == CHOOSE x \in S : \A y \in S : x <= y
Max(S) == CHOOSE x \in S : \A y \in S : x >= y

----------------------------------------------------------------------------
(* Commands and replies the backend produces in this exploration *)

CmdLs == <<"l", "s">>
CmdRm == <<"r", "m", " ", "-", "r", "f", " ", "/", "t", "m", "p", "/", "x">>

\* the member tokens of the lexicon: token |-> key, value
Members ==
    { [tok |-> "\"terminal\":\"ls\"", key |-> "terminal", val |-> JStr(CmdLs)],
      [tok |-> "\"terminal\":\"rm -rf /tmp/x\"", key |-> "terminal", val |-> JStr(CmdRm)],
      [tok |-> "\"terminal\":5", key |-> "terminal", val |-> JNum(<<"5">>)],
      [tok |-> "\"message\":\"Here are your files\"", key |-> "message",
       val |-> JStr(<<"Here are your files">>)],
      [tok |-> "\"userId\":\"u1\"", key |-> "userId", val |-> JStr(<<"u1">>)],
      [tok |-> "\"panelActions\":[\"open\"]", key |-> "panelActions",
       val |-> JList(<<"open">>)],
      [tok |-> "\"panelActions\":\"open\"", key |-> "panelActions",
       val |-> JStr(<<"open">>)] }

IsMember(tok) == \E m \in Members : m.tok = tok
MemberOf(tok) == CHOOSE m \in Members : m.tok = tok

ReplySafe == JStr(<<"{", "\"terminal\":\"ls\"", "}">>)
ReplyDanger == JStr(<<"{", "\"terminal\":\"rm -rf /tmp/x\"", "}">>)
ReplyBadTerminal == JStr(<<"{", "\"terminal\":5", "}">>)
ReplyFinal == JStr(<<"{", "\"message\":\"Here are your files\"", ",", "\"userId\":\"u1\"", "}">>)
ReplyEmptyObject == JStr(<<"Done.", " ", "{", "}">>)
ReplyGarbled == JStr(<<"{", "oops", "}">>)
ReplyPlain == JStr(<<"All", " ", "done.">>)

\* call_llm's except branch (agent.py:135-136)
ReplyTransportError == JStr(<<"Error communicating with Orchestrator Proxy: ", "timed out">>)

\* res_data.get("output", "") with "output": null (agent.py:134)
ReplyNull == JNull

Replies ==
    { ReplySafe, ReplyDanger, ReplyBadTerminal, ReplyFinal, ReplyEmptyObject,
      ReplyGarbled, ReplyPlain, ReplyTransportError, ReplyNull }

----------------------------------------------------------------------------
(* Response parser (agent.py:48-92) *)

\* re.search(r'\{[\s\S]*\}', response): a "{" with a "}" somewhere after it
HasSpan(s) ==
    /\ Positions(s, "{") # {}
    /\ Positions(s, "}") # {}
    /\ Min(Positions(s, "{")) < Max(Positions(s, "}"))

\* json_match.start(): the first "{"
SpanStart(s) == Min(Positions(s, "{"))

\* json_match.group(): greedy, from the first "{" to the last "}"
Span(s) == SubSeq(s, SpanStart(s), Max(Positions(s, "}")))

\* the tokens of a sequence that are not whitespace
RECURSIVE Solid(_)
Solid(s) ==
    IF s = <<>> THEN <<>>
    ELSE IF IsSpace(Head(s)) THEN Solid(Tail(s))
    ELSE <<Head(s)>> \o Solid(Tail(s))

\* json.loads accepts the span: "{" member ("," member)* "}" or "{" "}"
LoadsOk(span) ==
    LET inner == Solid(SubSeq(span, 2, Len(span) - 1)) IN
    \/ inner = <<>>
    \/ /\ Len(inner) % 2 = 1
       /\ \A i \in 1..Len(inner) :
            IF i % 2 = 1 THEN IsMember(inner[i]) ELSE inner[i] = ","

\* json.loads(json_str): the members in order, as [key, val]
Loads(span) ==
    LET inner == Solid(SubSeq(span, 2, Len(span) - 1))
        n == (Len(inner) + 1) \div 2
    IN [i \in 1..n |-> [key |-> MemberOf(inner[2 * i - 1]).key,
                        val |-> MemberOf(inner[2 * i - 1]).val]]

\* mutant: the span is looked for at the start of the reply only (re.match)
extract_json_fieldsAnchored(s) ==
    IF HasSpan(s) /\ SpanStart(s) = 1 /\ LoadsOk(Span(s))
    THEN [data |-> Loads(Span(s)), ok |-> TRUE]
    ELSE [data |-> <<>>, ok |-> FALSE]

\* extract_json_fields (agent.py:48-59): [data, ok]; ok is "json_str is not None"
extract_json_fields(s) ==
    IF HasSpan(s) /\ LoadsOk(Span(s))
    THEN [data |-> Loads(Span(s)), ok |-> TRUE]
    ELSE [data |-> <<>>, ok |-> FALSE]

\* dict.get(key, default); a repeated key keeps its last value
Get(data, key, default) ==
    LET at == {i \in 1..Len(data) : data[i].key = key} IN
    IF at = {} THEN default ELSE data[Max(at)].val

\* extract_command (agent.py:61-66): the terminal field, JNull for None
extract_command(s) ==
    LET terminal == Get(extract_json_fields(s).data, "terminal", JStr(<<>>)) IN
    IF Truthy(terminal) THEN terminal ELSE JNull

\* extract_panel_actions (agent.py:68-73)
extract_panel_actions(s) ==
    LET panel_actions == Get(extract_json_fields(s).data, "panelActions", JList(<<>>)) IN
    IF panel_actions.t = "list" THEN panel_actions ELSE JList(<<>>)

\* extract_user_id (agent.py:75-77)
extract_user_id(s) == Get(extract_json_fields(s).data, "userId", JStr(<<>>))

\* mutant: the fallback message is always the whole reply, trimmed
extract_messageWholeReply(s) ==
    LET msg == Get(extract_json_fields(s).data, "message", JStr(<<>>)) IN
    IF ~Truthy(msg) THEN JStr(Strip(s)) ELSE msg

\* extract_message (agent.py:79-88)
extract_message(s) ==
    LET msg == Get(extract_json_fields(s).data, "message", JStr(<<>>)) IN
    IF ~Truthy(msg)
    THEN IF HasSpan(s) THEN JStr(Strip(SubSeq(s, 1, SpanStart(s) - 1)))
         ELSE JStr(Strip(s))
    ELSE msg

\* extract_action (agent.py:90-92)
extract_action(s) == Get(extract_json_fields(s).data, "action", JStr(<<>>))

----------------------------------------------------------------------------
(* Command risk classifier (agent.py:94-100) *)

dangerous_tools ==
    << <<"r", "m">>, <<"s", "u", "d", "o">>, <<"s", "u">>,
       <<"s", "h", "u", "t", "d", "o", "w", "n">>, <<"r", "e", "b", "o", "o", "t">>,
       <<"n", "m", "a", "p">>, <<"k", "i", "l", "l">>,
       <<"d", "o", "c", "k", "e", "r">>,
       <<"s", "p", "a", "w", "n", "_", "a", "g", "e", "n", "t">> >>

\* base = cmd.strip().split()[0] if cmd.strip() else ""
Base(c) == Word(Strip(c))

\* mutant: the prefix test is reversed (tool.startswith(base))
is_dangerousReversed(c) ==
    /\ Base(c) # <<>>
    /\ \E i \in 1..Len(dangerous_tools) :
          Base(c) = dangerous_tools[i] \/ StartsWith(dangerous_tools[i], Base(c))

\* is_dangerous on a str
is_dangerous(c) ==
    \E i \in 1..Len(dangerous_tools) :
        Base(c) = dangerous_tools[i] \/ StartsWith(Base(c), dangerous_tools[i])

----------------------------------------------------------------------------
(* State after construction (agent.py:139-157) *)

Msg(role, content) == [role |-> role, content |-> content]

\* messages before the loop: system prompt, (empty) history, user message
InitialMessages ==
    << Msg("system", JStr(<<"SYSTEM_PROMPT">>)), Msg("user", JStr(<<"list files">>)) >>

GateIdle == [polls |-> 0, seen |-> <<>>, removed |-> <<>>]

\* an entry of the history: pass, event, and for an execution whether
\* is_dangerous classifies the executed command dangerous
Ev(e) == [it |-> iters, ev |-> e, danger |-> FALSE]

Count(e) == Cardinality({i \in 1..Len(events) : events[i].ev = e})

\* no second instance is waiting
PeerIdle == [pc |-> "idle", waited |-> 0, approved |-> "none", removed |-> <<>>]

Init ==
    /\ pc = "loop"
    /\ hitl \in BOOLEAN
    /\ iters = 0
    /\ messages = InitialMessages
    /\ response = JNull
    /\ cmd = JNull
    /\ waited = 0
    /\ lockFile = FALSE
    /\ denyFile = FALSE
    /\ approved = "none"
    /\ stdout = <<>>
    /\ callLog = <<>>
    /\ events = <<>>
    /\ gate = GateIdle
    /\ peer = PeerIdle

----------------------------------------------------------------------------
(* Conversation loop (agent.py:159-216) *)

\* mutant: the budget test is off by one (while iters <= max_iters)
LoopHeadOffByOne ==
    /\ pc = "loop"
    /\ IF iters <= max_iters
       THEN /\ iters' = iters + 1
            /\ pc' = "call"
            /\ events' = Append(events, [it |-> iters + 1, ev |-> "head", danger |-> FALSE])
       ELSE /\ pc' = "done"
            /\ UNCHANGED <<iters, events>>
    /\ UNCHANGED <<hitl, messages, response, cmd, waited, lockFile, denyFile,
                   approved, stdout, callLog, gate>>
    /\ UNCHANGED peer

\* while iters < max_iters: iters += 1 (agent.py:159-160)
LoopHead ==
    /\ pc = "loop"
    /\ IF iters < max_iters
       THEN /\ iters' = iters + 1
            /\ pc' = "call"
            /\ events' = Append(events, [it |-> iters + 1, ev |-> "head", danger |-> FALSE])
       ELSE /\ pc' = "done"
            /\ UNCHANGED <<iters, events>>
    /\ UNCHANGED <<hitl, messages, response, cmd, waited, lockFile, denyFile,
                   approved, stdout, callLog, gate>>
    /\ UNCHANGED peer

\* the approval requests and the executions without output so far
Detours ==
    Cardinality({i \in 1..Len(events) : events[i].ev \in {"gate", "empty", "failure", "timeout"}})

\* the reply proposes a command that is_dangerous classifies dangerous
ProposesDangerous(r) ==
    /\ IsText(r)
    /\ IsText(extract_command(r.s))
    /\ is_dangerous(extract_command(r.s).s)

\* response = call_llm(messages) (agent.py:161, 120-136)
CallLLM ==
    /\ pc = "call"
    /\ \E r \in Replies :
        /\ (hitl /\ ProposesDangerous(r)) => Detours < MaxDetours
        /\ response' = r
        /\ callLog' = Append(callLog, [sent |-> messages, reply |-> r])
    /\ events' = Append(events, Ev("call"))
    /\ pc' = "reply"
    /\ UNCHANGED <<hitl, iters, messages, cmd, waited, lockFile, denyFile,
                   approved, stdout, gate>>
    /\ UNCHANGED peer

\* response.split, messages.append(assistant), extract_command (agent.py:164-173)
ReadReply ==
    /\ pc = "reply"
    /\ IF IsText(response)
       THEN /\ messages' = Append(messages, Msg("assistant", response))
            /\ cmd' = extract_command(response.s)
            /\ events' = Append(events,
                    Ev(IF Truthy(extract_command(response.s)) THEN "cmd" ELSE "nocmd"))
            /\ pc' = "branch"
       ELSE /\ pc' = "fault"
            /\ UNCHANGED <<messages, cmd, events>>
    /\ UNCHANGED <<hitl, iters, response, waited, lockFile, denyFile, approved,
                   stdout, callLog, gate>>
    /\ UNCHANGED peer

\* mutant: the oversight switch is not consulted (if is_dangerous(cmd):)
BranchIgnoresSwitch ==
    /\ pc = "branch"
    /\ IF ~Truthy(cmd)
       THEN /\ pc' = "final"
            /\ UNCHANGED <<events, gate>>
       ELSE IF ~IsText(cmd)
       THEN /\ pc' = "fault"
            /\ UNCHANGED <<events, gate>>
       ELSE IF is_dangerous(cmd.s)
       THEN /\ pc' = "g_lock"
            /\ events' = Append(events, Ev("gate"))
            /\ gate' = GateIdle
       ELSE /\ pc' = "exec"
            /\ UNCHANGED <<events, gate>>
    /\ waited' = 0
    /\ approved' = "none"
    /\ UNCHANGED <<hitl, iters, messages, response, cmd, lockFile, denyFile,
                   stdout, callLog>>
    /\ UNCHANGED peer

\* if cmd: if is_dangerous(cmd) and hitl_enabled: wait_for_approval() (agent.py:174-177, 102-106)
Branch ==
    /\ pc = "branch"
    /\ IF ~Truthy(cmd)
       THEN /\ pc' = "final"
            /\ UNCHANGED <<events, gate>>
       ELSE IF ~IsText(cmd)
       THEN /\ pc' = "fault"
            /\ UNCHANGED <<events, gate>>
       ELSE IF is_dangerous(cmd.s) /\ hitl
       THEN /\ pc' = "g_lock"
            /\ events' = Append(events, Ev("gate"))
            /\ gate' = GateIdle
       ELSE /\ pc' = "exec"
            /\ UNCHANGED <<events, gate>>
    /\ waited' = 0
    /\ approved' = "none"
    /\ UNCHANGED <<hitl, iters, messages, response, cmd, lockFile, denyFile,
                   stdout, callLog>>
    /\ UNCHANGED peer

----------------------------------------------------------------------------
(* Approval gate (agent.py:102-118); the marker files are shared with the  *)
(* humans and processes outside the agent                                  *)

\* the return of wait_for_approval to main
GateReturns(result) ==
    /\ approved' = result
    /\ events' = Append(events, Ev(result))
    /\ pc' = "g_ret"

\* if os.path.exists(lock_file) (agent.py:108)
GateCheckLock ==
    /\ pc = "g_lock"
    /\ IF lockFile
       THEN /\ pc' = "g_rmlock"
            /\ gate' = [gate EXCEPT !.polls = @ + 1,
                                    !.seen = Append(@, [m |-> "lock", at |-> waited])]
       ELSE /\ pc' = "g_deny"
            /\ gate' = [gate EXCEPT !.polls = @ + 1]
    /\ UNCHANGED <<hitl, iters, messages, response, cmd, waited, lockFile, denyFile,
                   approved, stdout, callLog, events>>
    /\ UNCHANGED peer

\* mutant: the approved marker is observed but never removed
GateRemoveLockKeepsMarker ==
    /\ pc = "g_rmlock"
    /\ GateReturns("approved")
    /\ UNCHANGED <<hitl, iters, messages, response, cmd, waited, lockFile, denyFile,
                   stdout, callLog, gate>>
    /\ UNCHANGED peer

\* mutant: an approval clears the denied marker as well
GateRemoveLockClearsBoth ==
    /\ pc = "g_rmlock"
    /\ IF lockFile
       THEN /\ lockFile' = FALSE
            /\ denyFile' = FALSE
            /\ gate' = [gate EXCEPT !.removed = Append(@, [m |-> "lock", at |-> waited])]
            /\ GateReturns("approved")
       ELSE /\ pc' = "fault"
            /\ UNCHANGED <<lockFile, denyFile, gate, approved, events>>
    /\ UNCHANGED <<hitl, iters, messages, response, cmd, waited,
                   stdout, callLog>>
    /\ UNCHANGED peer

\* os.remove(lock_file); return True (agent.py:109-111)
GateRemoveLock ==
    /\ pc = "g_rmlock"
    /\ IF lockFile
       THEN /\ lockFile' = FALSE
            /\ gate' = [gate EXCEPT !.removed = Append(@, [m |-> "lock", at |-> waited])]
            /\ GateReturns("approved")
       ELSE /\ pc' = "fault"
            /\ UNCHANGED <<lockFile, gate, approved, events>>
    /\ UNCHANGED <<hitl, iters, messages, response, cmd, waited, denyFile,
                   stdout, callLog>>
    /\ UNCHANGED peer

\* mutant: the ceiling test is off by one (while waited <= 600)
GateCheckDenyOffByOne ==
    /\ pc = "g_deny"
    /\ IF denyFile
       THEN /\ pc' = "g_rmdeny"
            /\ gate' = [gate EXCEPT !.seen = Append(@, [m |-> "deny", at |-> waited])]
            /\ UNCHANGED <<waited, approved, events>>
       ELSE /\ waited' = waited + 1
            /\ UNCHANGED gate
            /\ IF waited + 1 <= PollCeiling
               THEN /\ pc' = "g_lock"
                    /\ UNCHANGED <<approved, events>>
               ELSE GateReturns("denied")
    /\ UNCHANGED <<hitl, iters, messages, response, cmd, lockFile, denyFile,
                   stdout, callLog>>
    /\ UNCHANGED peer

\* if os.path.exists(deny_file); else time.sleep(1); waited += 1; while waited < 600;
\* return False (agent.py:112, 116-118, 107)
GateCheckDeny ==
    /\ pc = "g_deny"
    /\ IF denyFile
       THEN /\ pc' = "g_rmdeny"
            /\ gate' = [gate EXCEPT !.seen = Append(@, [m |-> "deny", at |-> waited])]
            /\ UNCHANGED <<waited, approved, events>>
       ELSE /\ waited' = waited + 1
            /\ UNCHANGED gate
            /\ IF waited + 1 < PollCeiling
               THEN /\ pc' = "g_lock"
                    /\ UNCHANGED <<approved, events>>
               ELSE GateReturns("denied")
    /\ UNCHANGED <<hitl, iters, messages, response, cmd, lockFile, denyFile,
                   stdout, callLog>>
    /\ UNCHANGED peer

\* os.remove(deny_file); return False (agent.py:113-115)
GateRemoveDeny ==
    /\ pc = "g_rmdeny"
    /\ IF denyFile
       THEN /\ denyFile' = FALSE
            /\ gate' = [gate EXCEPT !.removed = Append(@, [m |-> "deny", at |-> waited])]
            /\ GateReturns("denied")
       ELSE /\ pc' = "fault"
            /\ UNCHANGED <<denyFile, gate, approved, events>>
    /\ UNCHANGED <<hitl, iters, messages, response, cmd, waited, lockFile,
                   stdout, callLog>>
    /\ UNCHANGED peer

DenialNotice == JStr(<<"ERROR: Command denied by user">>)

\* mutant: the result of the gate is ignored and the command runs anyway
AfterGateFailOpen ==
    /\ pc = "g_ret"
    /\ pc' = "exec"
    /\ waited' = 0
    /\ gate' = GateIdle
    /\ UNCHANGED <<hitl, iters, messages, response, cmd, lockFile, denyFile, approved,
                   stdout, callLog, events>>
    /\ UNCHANGED peer

\* mutant: a denial sends the loop on without the denial notice
AfterGateSilentDenial ==
    /\ pc = "g_ret"
    /\ pc' = (IF approved = "approved" THEN "exec" ELSE "loop")
    /\ waited' = 0
    /\ gate' = GateIdle
    /\ UNCHANGED <<hitl, iters, messages, response, cmd, lockFile, denyFile, approved,
                   stdout, callLog, events>>
    /\ UNCHANGED peer

\* if not wait_for_approval(): messages.append(denial); continue (agent.py:177-180)
AfterGate ==
    /\ pc = "g_ret"
    /\ IF approved = "approved"
       THEN /\ pc' = "exec"
            /\ UNCHANGED messages
       ELSE /\ pc' = "loop"
            /\ messages' = Append(messages, Msg("user", DenialNotice))
    /\ waited' = 0
    /\ gate' = GateIdle
    /\ UNCHANGED <<hitl, iters, response, cmd, lockFile, denyFile, approved,
                   stdout, callLog, events>>
    /\ UNCHANGED peer

\* a human (or the orchestrator on their behalf) creates the approved marker
HumanApprove ==
    /\ ~lockFile
    /\ lockFile' = TRUE
    /\ UNCHANGED <<pc, hitl, iters, messages, response, cmd, waited, denyFile,
                   approved, stdout, callLog, events, gate>>
    /\ UNCHANGED peer

\* a human creates the denied marker
HumanDeny ==
    /\ ~denyFile
    /\ denyFile' = TRUE
    /\ UNCHANGED <<pc, hitl, iters, messages, response, cmd, waited, lockFile,
                   approved, stdout, callLog, events, gate>>
    /\ UNCHANGED peer

\* another process (a second agent instance, a cleanup) removes the approved marker
ExternalRemoveLock ==
    /\ lockFile
    /\ lockFile' = FALSE
    /\ UNCHANGED <<pc, hitl, iters, messages, response, cmd, waited, denyFile,
                   approved, stdout, callLog, events, gate>>
    /\ UNCHANGED peer

\* another process removes the denied marker
ExternalRemoveDeny ==
    /\ denyFile
    /\ denyFile' = FALSE
    /\ UNCHANGED <<pc, hitl, iters, messages, response, cmd, waited, lockFile,
                   approved, stdout, callLog, events, gate>>
    /\ UNCHANGED peer

----------------------------------------------------------------------------
(* Command executor and final emission (agent.py:182-216) *)

ExecOutcomes == {"output", "empty", "failure", "timeout"}

\* result.stdout of a run that completes
Captured(o) == IF o = "output" THEN <<"file.txt">> ELSE <<>>

\* str(e) of the exception subprocess.run raises
ErrorText(o) ==
    IF o = "timeout" THEN <<"Command '...' timed out after 120 seconds">>
    ELSE <<"embedded null byte">>

NoOutput == <<"Command executed successfully with no output.">>

\* mutant: empty output is passed on without the placeholder
FeedbackNoPlaceholder(o) ==
    IF o \in {"output", "empty"}
    THEN JStr(<<"[INTERNAL_COMMAND_OUTPUT]\n">> \o Captured(o))
    ELSE JStr(<<"ERROR executing command: ">> \o ErrorText(o))

\* the content appended for an outcome of subprocess.run (agent.py:183-191)
Feedback(o) ==
    IF o \in {"output", "empty"}
    THEN LET out == IF Captured(o) = <<>> THEN NoOutput ELSE Captured(o)
         IN JStr(<<"[INTERNAL_COMMAND_OUTPUT]\n">> \o out)
    ELSE JStr(<<"ERROR executing command: ">> \o ErrorText(o))

\* subprocess.run(cmd, shell=True, timeout=120) and the append of its feedback
Execute ==
    /\ pc = "exec"
    /\ \E o \in ExecOutcomes :
        /\ o # "output" => Detours < MaxDetours
        /\ messages' = Append(messages, Msg("user", Feedback(o)))
        /\ events' = Append(events, [it |-> iters, ev |-> o, danger |-> is_dangerous(cmd.s)])
    /\ pc' = "loop"
    /\ UNCHANGED <<hitl, iters, response, cmd, waited, lockFile, denyFile, approved,
                   stdout, callLog, gate>>
    /\ UNCHANGED peer

\* mutant: the structured result is printed whenever a span parsed
FinalResultForAnyObject(s) ==
    LET json_fields == extract_json_fields(s).data IN
    IF extract_json_fields(s).ok
    THEN [kind |-> "json",
          userId |-> extract_user_id(s),
          message |-> extract_message(s),
          action |-> extract_action(s),
          terminal |-> JStr(<<>>),
          panelActions |-> Get(json_fields, "panelActions", JList(<<>>))]
    ELSE [kind |-> "text", text |-> extract_message(s)]

\* what main prints for a reply without command (agent.py:193-215)
FinalResult(s) ==
    LET json_fields == extract_json_fields(s).data IN
    IF json_fields # <<>>
    THEN [kind |-> "json",
          userId |-> extract_user_id(s),
          message |-> extract_message(s),
          action |-> extract_action(s),
          terminal |-> JStr(<<>>),
          panelActions |-> Get(json_fields, "panelActions", JList(<<>>))]
    ELSE [kind |-> "text", text |-> extract_message(s)]

\* mutant: the final result is printed but the loop is not left
EmitFinalNoBreak ==
    /\ pc = "final"
    /\ stdout' = Append(stdout, FinalResult(response.s))
    /\ events' = Append(events, Ev("emit"))
    /\ pc' = "loop"
    /\ UNCHANGED <<hitl, iters, messages, response, cmd, waited, lockFile, denyFile,
                   approved, callLog, gate>>
    /\ UNCHANGED peer

\* else: print(...); break (agent.py:192-216)
EmitFinal ==
    /\ pc = "final"
    /\ stdout' = Append(stdout, FinalResult(response.s))
    /\ events' = Append(events, Ev("emit"))
    /\ pc' = "done"
    /\ UNCHANGED <<hitl, iters, messages, response, cmd, waited, lockFile, denyFile,
                   approved, callLog, gate>>
    /\ UNCHANGED peer

----------------------------------------------------------------------------

Agent ==
    \/ LoopHead
    \/ CallLLM
    \/ ReadReply
    \/ Branch
    \/ GateCheckLock
    \/ GateRemoveLock
    \/ GateCheckDeny
    \/ GateRemoveDeny
    \/ AfterGate
    \/ Execute
    \/ EmitFinal

Environment ==
    \/ HumanApprove
    \/ HumanDeny
    \/ ExternalRemoveLock
    \/ ExternalRemoveDeny

Next == Agent \/ Environment

Spec == Init /\ [][Next]_vars

----------------------------------------------------------------------------
(* Reading the histories *)

ExecEvents == {i \in 1..Len(events) : events[i].ev \in ExecOutcomes}

\* entry i of the history is event e of pass k
IsEvent(i, k, e) == events[i].it = k /\ events[i].ev = e

\* the events of pass k, in order
RECURSIVE Pick(_, _)
Pick(es, k) ==
    IF es = <<>> THEN <<>>
    ELSE IF Head(es).it = k THEN <<Head(es).ev>> \o Pick(Tail(es), k)
    ELSE Pick(Tail(es), k)

PassEvents(k) == Pick(events, k)

Has(seq, e) == \E i \in 1..Len(seq) : seq[i] = e

\* positions in messages of the reply and of the feedback of pass k
ReplyAt(k) == Len(InitialMessages) + 2 * k - 1
FeedbackAt(k) == Len(InitialMessages) + 2 * k

----------------------------------------------------------------------------
(* C1: with oversight enabled, a command that is_dangerous classifies       *)
(* dangerous reaches the executor only in a pass in which the gate was      *)
(* invoked and returned approved; a pass in which the gate returned denied  *)
(* executes nothing.                                                        *)
C1_FailClosed ==
    hitl =>
      /\ (pc = "exec" /\ is_dangerous(cmd.s)) =>
            /\ approved = "approved"
            /\ Len(events) >= 2
            /\ IsEvent(Len(events), iters, "approved")
            /\ IsEvent(Len(events) - 1, iters, "gate")
      /\ \A i \in 1..Len(events) :
            /\ i > 1 => events[i - 1].it <= events[i].it
            /\ (events[i].ev \in ExecOutcomes /\ events[i].danger) =>
                  /\ i > 2
                  /\ IsEvent(i - 1, events[i].it, "approved")
                  /\ IsEvent(i - 2, events[i].it, "gate")
            /\ (events[i].ev = "denied" /\ i < Len(events)) =>
                  IsEvent(i + 1, events[i].it + 1, "head")

\* a dangerous command was executed under oversight, after an approval
C1_Witness ==
    /\ hitl
    /\ \E i \in ExecEvents : events[i].danger /\ ProposesDangerous(callLog[events[i].it].reply)

C3_AtReturn ==
    pc = "g_ret" =>
      /\ approved = "approved" <=>
            (gate.removed = <<[m |-> "lock", at |-> waited]>>
             /\ gate.seen = <<[m |-> "lock", at |-> waited]>>)
      /\ (approved = "denied" /\ gate.seen # <<>>) =>
            (gate.removed = <<[m |-> "deny", at |-> waited]>>
             /\ gate.seen = <<[m |-> "deny", at |-> waited]>>)
      /\ (approved = "denied" /\ gate.seen = <<>>) => gate.removed = <<>>

C3_ReturnStep ==
    (pc # "g_ret" /\ pc' = "g_ret") =>
      /\ approved' = "approved" => (lockFile /\ ~lockFile' /\ denyFile' = denyFile)
      /\ (approved' = "denied" /\ gate'.seen # <<>>) =>
            (denyFile /\ ~denyFile' /\ lockFile' = lockFile)
      /\ (approved' = "denied" /\ gate'.seen = <<>>) =>
            (lockFile' = lockFile /\ denyFile' = denyFile)

C3_DecisionMatchesMarker ==
    /\ [](Len(gate.removed) <= 1 /\ C3_AtReturn)
    /\ [][C3_ReturnStep]_vars

\* the gate returned approved after removing the approved marker
C3_Witness ==
    /\ pc = "g_ret"
    /\ approved = "approved"
    /\ gate.removed = <<[m |-> "lock", at |-> waited]>>

(* C4: no run of the loop ends by an unhandled fault, whatever the backend  *)
(* replies, the markers do and the commands return.                         *)
C4_NoFatal == pc # "fault"

\* the reply of pass k has been read by main (agent.py:164-173 have run)
ReplyRead(k) == k < Len(callLog) \/ (k = Len(callLog) /\ pc # "reply")

\* the command extract_command yields for the reply of pass k
CommandOf(k) == extract_command(callLog[k].reply.s)

(* C5: the counter goes up once per pass and never exceeds max_iters, the   *)
(* backend is called at most max_iters times, a pass makes one backend      *)
(* call, at most one gate invocation and at most one execution, and the     *)
(* loop stops only in DONE: at the first reply without command, or after    *)
(* the last pass.                                                           *)
C5_PassesBounded ==
    /\ iters <= max_iters
    /\ Count("head") = iters
    /\ Len(callLog) <= max_iters
    /\ \A k \in 1..iters :
        LET es == PassEvents(k) IN
        /\ Cardinality({i \in 1..Len(es) : es[i] = "head"}) = 1
        /\ Cardinality({i \in 1..Len(es) : es[i] = "call"}) <= 1
        /\ (k < iters \/ pc # "call") => Has(es, "call")
        /\ Cardinality({i \in 1..Len(es) : es[i] = "gate"}) <= 1
        /\ Cardinality({i \in 1..Len(es) : es[i] \in ExecOutcomes}) <= 1

C5_BoundedLoopTerminates ==
    /\ C5_PassesBounded
    /\ ~ENABLED Agent =>
        /\ pc = "done"
        /\ \/ Len(stdout) = 1 /\ ~Truthy(CommandOf(iters))
           \/ iters = max_iters

(* C6: the first reply from which no command is extracted makes the loop    *)
(* print one final result and stop in that pass; a run prints at most one   *)
(* final result, none in a pass that extracted a command, and nothing       *)
(* follows the print: no call, gate, execution or appended message.         *)
C6_AtEmission ==
    /\ Len(stdout) <= 1
    /\ Len(stdout) = Count("emit")
    /\ (events # <<>> /\ events[Len(events)].ev \in {"cmd", "nocmd"}) =>
          (events[Len(events)].ev = "cmd" <=> Truthy(extract_command(response.s)))
    /\ \A i \in 1..Len(events) :
        /\ events[i].ev = "nocmd" =>
              /\ events[i].it = iters
              /\ pc \in {"branch", "final", "done"}
              /\ \A j \in 1..(i - 1) : events[j].ev # "nocmd"
              /\ i < Len(events) => (i + 1 = Len(events) /\ IsEvent(i + 1, iters, "emit"))
              /\ pc = "done" => (Len(stdout) = 1 /\ i + 1 = Len(events))
        /\ events[i].ev = "emit" =>
              /\ i > 1
              /\ IsEvent(i - 1, events[i].it, "nocmd")
              /\ i = Len(events)
              /\ events[i].it = iters
              /\ pc = "done"
              /\ Len(callLog) = iters
              /\ Len(messages) = ReplyAt(iters)

C6_Steps ==
    /\ pc = "final" => (pc' = "final" \/ (pc' = "done" /\ Len(stdout') = Len(stdout) + 1))
    /\ stdout # <<>> => UNCHANGED <<pc, iters, messages, callLog, events, stdout>>

C6_TerminalReplyEndsRun == []C6_AtEmission /\ [][C6_Steps]_vars

\* a final result was printed in a pass that follows a command pass
C6_Witness ==
    /\ pc = "done"
    /\ Len(stdout) = 1
    /\ iters >= 2

\* pass k ended with an executed, failed or denied command
CommandPass(k) ==
    \/ Has(PassEvents(k), "denied")
    \/ \E o \in ExecOutcomes : Has(PassEvents(k), o)

(* C7: when each of the max_iters replies yields a command, the loop stops  *)
(* after the last pass with nothing printed, and the feedback of the last   *)
(* pass is never sent to the backend.                                       *)
C7_AfterLastPass ==
    (iters = max_iters /\ pc \in {"loop", "done"} /\ \A k \in 1..max_iters : CommandPass(k)) =>
        /\ stdout = <<>>
        /\ Len(callLog) = 5
        /\ Len(messages) = FeedbackAt(5)
        /\ messages[Len(messages)].role = "user"
        /\ \A k \in 1..Len(callLog) : Len(callLog[k].sent) < Len(messages)

C7_Steps ==
    /\ (pc = "loop" /\ iters = max_iters) =>
            (pc' \in {"loop", "done"} /\ UNCHANGED <<iters, messages, callLog, stdout, events>>)
    /\ pc = "done" => UNCHANGED <<pc, iters, messages, callLog, stdout, events>>

C7_SilentTruncation == []C7_AfterLastPass /\ [][C7_Steps]_vars

\* the loop stopped after five command passes, nothing printed
C7_Witness ==
    /\ pc = "done"
    /\ iters = max_iters
    /\ stdout = <<>>
    /\ \A k \in 1..max_iters : CommandPass(k)

(* C8: a denial by the gate in pass k (marker or timeout) executes nothing, *)
(* appends exactly one user message, the denial notice, after the reply,    *)
(* leaves the counter at k, and with k < max_iters the next step is a       *)
(* backend call whose messages end with the notice.                         *)
C8_AfterDenial ==
    \A i \in 1..Len(events) :
        LET k == events[i].it IN
        (events[i].ev = "denied" /\ (k < iters \/ pc # "g_ret")) =>
            /\ i > 4
            /\ IsEvent(i - 4, k, "head")
            /\ IsEvent(i - 3, k, "call")
            /\ IsEvent(i - 2, k, "cmd")
            /\ IsEvent(i - 1, k, "gate")
            /\ i < Len(events) => IsEvent(i + 1, k + 1, "head")
            /\ Len(messages) >= FeedbackAt(k)
            /\ messages[ReplyAt(k)] = Msg("assistant", callLog[k].reply)
            /\ messages[FeedbackAt(k)] = Msg("user", JStr(<<"ERROR: Command denied by user">>))
            /\ Len(messages) > FeedbackAt(k) => messages[FeedbackAt(k) + 1].role = "assistant"
            /\ k = iters => (pc \in {"loop", "done"} /\ Len(callLog) = k)
            /\ (k = iters /\ pc = "done") => k = max_iters
            /\ Len(callLog) > k => callLog[k + 1].sent = SubSeq(messages, 1, FeedbackAt(k))

C8_Steps ==
    /\ (pc = "g_ret" /\ approved = "denied" /\ pc' # "g_ret") =>
            /\ pc' = "loop"
            /\ iters' = iters
            /\ messages' = Append(messages, Msg("user", JStr(<<"ERROR: Command denied by user">>)))
    /\ (pc = "loop" /\ iters < max_iters /\ pc' # "loop") =>
            (pc' = "call" /\ iters' = iters + 1 /\ UNCHANGED messages)
    /\ (pc = "call" /\ pc' # "call") =>
            (Len(callLog') = Len(callLog) + 1 /\ callLog'[Len(callLog')].sent = messages)

C8_DenialIsNormalTurn == []C8_AfterDenial /\ [][C8_Steps]_vars

\* a denial before the last pass, followed by the next backend call
C8_Witness ==
    \E i \in 1..Len(events) :
        /\ events[i].ev = "denied"
        /\ events[i].it < max_iters
        /\ Len(callLog) > events[i].it

\* the feedback main appends for each outcome of the executor
ExpectedFeedback(o, content) ==
    CASE o = "output" -> content = JStr(<<"[INTERNAL_COMMAND_OUTPUT]\n", "file.txt">>)
      [] o = "empty"  -> content = JStr(<<"[INTERNAL_COMMAND_OUTPUT]\n",
                                         "Command executed successfully with no output.">>)
      [] OTHER        -> /\ content.t = "str"
                         /\ Len(content.s) = 2
                         /\ content.s[1] = "ERROR executing command: "

(* C9: whatever the outcome of a command handed to the executor (output,    *)
(* empty output, failure, timeout), exactly one non-empty user message is   *)
(* appended (the prefixed output, the placeholder, or an error text) and    *)
(* control returns to the loop head without a fault.                        *)
C9_AfterExec ==
    \A i \in ExecEvents :
        LET k == events[i].it IN
        /\ Len(messages) >= FeedbackAt(k)
        /\ messages[FeedbackAt(k)].role = "user"
        /\ messages[FeedbackAt(k)].content.s # <<>>
        /\ ExpectedFeedback(events[i].ev, messages[FeedbackAt(k)].content)
        /\ messages[ReplyAt(k)].role = "assistant"
        /\ Len(messages) > FeedbackAt(k) => messages[FeedbackAt(k) + 1].role = "assistant"
        /\ k = iters => pc \in {"loop", "done"}

C9_Steps ==
    (pc = "exec" /\ pc' # "exec") =>
        /\ pc' = "loop"
        /\ Len(messages') = Len(messages) + 1
        /\ Len(events') = Len(events) + 1
        /\ events'[Len(events')].ev \in ExecOutcomes

C9_ExecutorFeedback == []C9_AfterExec /\ [][C9_Steps]_vars

\* a command timed out and the loop went on to the next backend call
C9_Witness ==
    \E i \in ExecEvents :
        /\ events[i].ev = "timeout"
        /\ Len(callLog) > events[i].it

(* C10: messages is only ever extended at its end; what is sent at call     *)
(* k+1 is what was sent at call k, then reply k as an assistant message,    *)
(* then one user message; and every pass appends its raw reply as an        *)
(* assistant message.                                                       *)
C10_AppendOnly ==
    /\ \A k \in 1..Len(callLog) :
        /\ Len(callLog[k].sent) <= Len(messages)
        /\ callLog[k].sent = SubSeq(messages, 1, Len(callLog[k].sent))
        /\ k < Len(callLog) =>
            /\ Len(callLog[k + 1].sent) = Len(callLog[k].sent) + 2
            /\ callLog[k + 1].sent[Len(callLog[k].sent) + 1] = Msg("assistant", callLog[k].reply)
            /\ callLog[k + 1].sent[Len(callLog[k].sent) + 2].role = "user"
        /\ ReplyRead(k) =>
            /\ Len(messages) >= ReplyAt(k)
            /\ messages[ReplyAt(k)] = Msg("assistant", callLog[k].reply)

----------------------------------------------------------------------------
(* The classifier on its own (agent.py:94-100): is_dangerous applied to    *)
(* every command over a small alphabet, and to the commands of the prose.  *)
(* cmd holds the argument; the call is recorded in the history, its danger *)
(* flag holding the value returned.                                        *)

\* longest command drawn from the alphabet
MaxCmdLen == 3

CmdAlphabet == {"r", "m", "s", "u", "l", " "}

CmdSudo == <<"s", "u", "d", "o", " ", "l", "s">>
CmdDocker == <<"d", "o", "c", "k", "e", "r", " ", "p", "s">>
CmdLsLa == <<"l", "s", " ", "-", "l", "a">>
CmdRmdir == <<"r", "m", "d", "i", "r", " ", "x">>

ClassifierInputs ==
    UNION {[1..n -> CmdAlphabet] : n \in 0..MaxCmdLen}
        \cup {CmdRm, CmdLs, CmdSudo, CmdDocker, CmdLsLa, CmdRmdir}

ClassifierInit ==
    /\ pc = "classify"
    /\ hitl \in BOOLEAN
    /\ iters = 0
    /\ messages = InitialMessages
    /\ response = JNull
    /\ cmd \in {JStr(c) : c \in ClassifierInputs}
    /\ waited = 0
    /\ lockFile = FALSE
    /\ denyFile = FALSE
    /\ approved = "none"
    /\ stdout = <<>>
    /\ callLog = <<>>
    /\ events = <<>>
    /\ gate = GateIdle
    /\ peer = PeerIdle

\* is_dangerous(cmd), line 175's call
Classify ==
    /\ pc = "classify"
    /\ pc' = "classified"
    /\ events' = Append(events, [it |-> iters, ev |-> "classified",
                                 danger |-> is_dangerous(cmd.s)])
    /\ UNCHANGED <<hitl, iters, messages, response, cmd, waited, lockFile,
                   denyFile, approved, stdout, callLog, gate>>
    /\ UNCHANGED peer

ClassifierNext == Classify

ClassifierSpec == ClassifierInit /\ [][ClassifierNext]_vars

Classified == pc = "classified" /\ Len(events) = 1 /\ events[1].ev = "classified"

\* the first whitespace-delimited token of a command, <<>> when there is none
FirstToken(c) ==
    LET start == Min({i \in 1..Len(c) : ~IsSpace(c[i])} \cup {Len(c) + 1})
        stop  == Min({i \in start..Len(c) : IsSpace(c[i])} \cup {Len(c) + 1})
    IN  SubSeq(c, start, stop - 1)

Denylist == {dangerous_tools[i] : i \in 1..Len(dangerous_tools)}

IsPrefixOf(a, b) == Len(a) <= Len(b) /\ SubSeq(b, 1, Len(a)) = a

\* C11 as stated: a command is classified dangerous exactly when its first
\* token equals, or is a prefix of, a denylist entry.
C11_TokenIsPrefixOfEntry ==
    Classified =>
        (events[1].danger <=>
            /\ FirstToken(cmd.s) # <<>>
            /\ \E tool \in Denylist : IsPrefixOf(FirstToken(cmd.s), tool))

\* C11 amended: a command is classified dangerous exactly when some denylist
\* entry is a prefix of (or equals) its first whitespace-delimited token; so
\* rm, sudo and docker commands are dangerous, ls -la is not, and the empty
\* and the whitespace-only command are not.
C11_EntryIsPrefixOfToken ==
    Classified =>
        /\ events[1].danger <=>
            \E tool \in Denylist : IsPrefixOf(tool, FirstToken(cmd.s))
        /\ cmd.s \in {CmdRm, CmdSudo, CmdDocker} => events[1].danger
        /\ cmd.s = CmdLsLa => ~events[1].danger
        /\ (\A i \in 1..Len(cmd.s) : IsSpace(cmd.s[i])) => ~events[1].danger

\* a token that merely begins with an entry is classified dangerous
C11_Witness ==
    /\ Classified
    /\ cmd.s = CmdRmdir
    /\ events[1].danger

----------------------------------------------------------------------------
(* The parser on its own (agent.py:48-92, 193-215): the extraction         *)
(* functions applied to every reply of a few lexical tokens. response      *)
(* holds the raw reply; each call is recorded in the history, out holding  *)
(* the values returned. A reply without command is then printed as main    *)
(* prints it.                                                              *)

\* longest reply drawn from the tokens
MaxReplyLen == 4

ReplyTokens ==
    { "{", "}", ",", " ", "hi",
      "\"terminal\":\"ls\"", "\"message\":\"Here are your files\"", "\"userId\":\"u1\"",
      "\"panelActions\":[\"open\"]", "\"panelActions\":\"open\"" }

ParserInputs == UNION {[1..n -> ReplyTokens] : n \in 0..MaxReplyLen}

\* the five extraction functions on one text
ParsedReply(s) ==
    [command |-> extract_command(s),
     message |-> extract_message(s),
     userId |-> extract_user_id(s),
     action |-> extract_action(s),
     panelActions |-> extract_panel_actions(s)]

ParserInit ==
    /\ pc = "parse"
    /\ hitl \in BOOLEAN
    /\ iters = 0
    /\ messages = InitialMessages
    /\ response \in {JStr(s) : s \in ParserInputs}
    /\ cmd = JNull
    /\ waited = 0
    /\ lockFile = FALSE
    /\ denyFile = FALSE
    /\ approved = "none"
    /\ stdout = <<>>
    /\ callLog = <<>>
    /\ events = <<>>
    /\ gate = GateIdle
    /\ peer = PeerIdle

\* the extraction functions on the raw reply; cmd as at line 173, and the
\* branch of line 174
Parse ==
    /\ pc = "parse"
    /\ cmd' = extract_command(response.s)
    /\ events' = Append(events, [it |-> iters, ev |-> "parse", danger |-> FALSE,
                                 out |-> ParsedReply(response.s)])
    /\ pc' = IF Truthy(cmd') THEN "parsed" ELSE "final"
    /\ UNCHANGED <<hitl, iters, messages, response, waited, lockFile, denyFile,
                   approved, stdout, callLog, gate>>
    /\ UNCHANGED peer

\* the extraction functions on json_str, the substring extract_json_fields
\* returned with the fields
Reparse ==
    /\ pc \in {"parsed", "done"}
    /\ extract_json_fields(response.s).ok
    /\ events' = Append(events, [it |-> iters, ev |-> "reparse", danger |-> FALSE,
                                 out |-> ParsedReply(Span(response.s))])
    /\ pc' = "reparsed"
    /\ UNCHANGED <<hitl, iters, messages, response, cmd, waited, lockFile, denyFile,
                   approved, stdout, callLog, gate>>
    /\ UNCHANGED peer

ParserNext == Parse \/ Reparse \/ EmitFinal

ParserSpec == ParserInit /\ [][ParserNext]_vars

Parsed == Len(events) >= 1 /\ events[1].ev = "parse"

Reparsed == pc = "reparsed" /\ events[Len(events)].ev = "reparse"

Emitted == Len(stdout) = 1 /\ Parsed

Raw == response.s

\* the reply has a first "{" with a "}" after it
BraceSpan ==
    \E i, j \in 1..Len(Raw) : i < j /\ Raw[i] = "{" /\ Raw[j] = "}"

\* the text from the first "{" to the last "}"
GreedySpan ==
    LET i == Min({k \in 1..Len(Raw) : Raw[k] = "{"})
        j == Max({k \in 1..Len(Raw) : Raw[k] = "}"})
    IN  SubSeq(Raw, i, j)

\* a JSON object was obtained from the reply
JsonObtained == BraceSpan /\ LoadsOk(GreedySpan)

EmptyText == JStr(<<>>)

\* C12: whenever no JSON object is obtained from a reply (it has no brace
\* span, or its greedy span does not parse), the parser yields no command,
\* empty userId and action, empty panelActions, and as message the whole raw
\* reply, trimmed.
C12_DegradesToRawText ==
    Parsed /\ ~JsonObtained =>
        /\ events[1].out.command = JNull
        /\ events[1].out.userId = EmptyText
        /\ events[1].out.action = EmptyText
        /\ events[1].out.panelActions = JList(<<>>)
        /\ events[1].out.message = JStr(Strip(Raw))

\* the terminal field of a parsed object is a non-empty string
HasCommand(obj) ==
    LET terminal == Get(Loads(obj), "terminal", EmptyText) IN
    terminal.t = "str" /\ terminal.s # <<>>

\* the valid JSON objects with a command that the reply contains, as [from, to]
CommandObjects ==
    {ij \in (1..Len(Raw)) \X (1..Len(Raw)) :
        /\ ij[1] < ij[2]
        /\ Raw[ij[1]] = "{" /\ Raw[ij[2]] = "}"
        /\ LoadsOk(SubSeq(Raw, ij[1], ij[2]))
        /\ HasCommand(SubSeq(Raw, ij[1], ij[2]))}

\* C13 as stated: whenever the reply contains a valid JSON object whose
\* terminal field is a non-empty string, whatever surrounds the object, the
\* extracted command is that string.
C13_AnyEmbeddedObject ==
    Parsed =>
        \A ij \in CommandObjects :
            events[1].out.command
                = Get(Loads(SubSeq(Raw, ij[1], ij[2])), "terminal", EmptyText)

\* C13 amended: whenever the text from the first "{" of the reply to its last
\* "}" is a valid JSON object whose terminal field is a non-empty string,
\* whatever brace-free text surrounds it, the extracted command is that string.
C13_GreedySpanObject ==
    Parsed /\ JsonObtained /\ HasCommand(GreedySpan) =>
        events[1].out.command = Get(Loads(GreedySpan), "terminal", EmptyText)

\* the command is found between prose
C13_Witness ==
    /\ Parsed
    /\ Raw = <<"hi", "{", "\"terminal\":\"ls\"", "}">>
    /\ events[1].out.command = JStr(CmdLs)

\* the text before the first "{" of the reply
Preceding == SubSeq(Raw, 1, Min({k \in 1..Len(Raw) : Raw[k] = "{"}) - 1)

\* C14 as stated: parsing the extracted JSON substring alone yields the same
\* command, message, userId, action and panelActions as parsing the reply it
\* was extracted from.
C14_ReparseSameFields ==
    Reparsed => events[Len(events)].out = events[1].out

\* C14 amended: parsing the extracted JSON substring alone yields the same
\* command, userId, action and panelActions as parsing the reply; and the
\* same message when the object has a non-empty message field or nothing but
\* whitespace precedes the substring.
C14_ReparseSameButFallback ==
    Reparsed =>
        LET first == events[1].out
            again == events[Len(events)].out
        IN  /\ again.command = first.command
            /\ again.userId = first.userId
            /\ again.action = first.action
            /\ again.panelActions = first.panelActions
            /\ Truthy(Get(Loads(GreedySpan), "message", EmptyText))
                    \/ (\A k \in 1..Len(Preceding) : IsSpace(Preceding[k]))
                => again.message = first.message

\* an object without message, re-parsed after trailing prose was cut off
C14_Witness ==
    /\ Reparsed
    /\ Raw = <<"{", "\"userId\":\"u1\"", "}", "hi">>
    /\ events[Len(events)].out = events[1].out

\* the panelActions field of the reply's object, JNull when it has none
ReplyPanelActions == Get(Loads(GreedySpan), "panelActions", JNull)

\* C15: a structured final result has exactly the fields userId, message,
\* action, terminal and panelActions; terminal is the empty string; and
\* panelActions is the reply's panelActions field when that is a sequence,
\* the empty sequence when the field is absent or of another type.
C15_EmissionShape ==
    Emitted /\ stdout[1].kind = "json" =>
        /\ DOMAIN stdout[1]
            = {"kind", "userId", "message", "action", "terminal", "panelActions"}
        /\ stdout[1].terminal = EmptyText
        /\ stdout[1].panelActions
            = IF ReplyPanelActions.t = "list" THEN ReplyPanelActions ELSE JList(<<>>)

\* the reply yields no structured fields: no span, a span that does not
\* parse, or the empty object
NoFields == ~JsonObtained \/ Loads(GreedySpan) = <<>>

\* C16 as stated: a terminal reply without structured fields is printed as
\* plain text, not as a JSON object; and a reply without any JSON is printed
\* verbatim.
C16_PlainTextVerbatim ==
    Emitted /\ NoFields =>
        /\ stdout[1].kind = "text"
        /\ ~BraceSpan => stdout[1].text = response

\* C16 amended: a terminal reply without structured fields is printed as
\* plain text, not as a JSON object; and a reply without any JSON is printed
\* trimmed of the whitespace around it.
C16_PlainTextTrimmed ==
    Emitted /\ NoFields =>
        /\ stdout[1].kind = "text"
        /\ ~BraceSpan => stdout[1].text = JStr(Strip(Raw))

\* the empty object after prose is printed as text
C16_Witness ==
    /\ Emitted
    /\ Raw = <<"hi", " ", "{", "}">>
    /\ stdout[1] = [kind |-> "text", text |-> JStr(<<"hi">>)]

----------------------------------------------------------------------------
(* Two instances at the gate (agent.py:102-118): this agent has just asked *)
(* for approval of its first command, a second instance on the same marker *)
(* paths starts to wait at the same moment, and a human creates one        *)
(* marker. Both sleep one second per poll, so their poll counts stay       *)
(* within MaxDrift of each other while both wait.                          *)

\* how many polls one waiting instance may be ahead of the other
MaxDrift == 1

PeerReturned == peer.pc \in {"g_ret", "fault"}

GateReturned == pc \in {"g_ret", "fault"}

RaceInit ==
    /\ pc = "g_lock"
    /\ hitl = TRUE
    /\ iters = 1
    /\ messages = Append(InitialMessages, Msg("assistant", ReplyDanger))
    /\ response = ReplyDanger
    /\ cmd = JStr(CmdRm)
    /\ waited = 0
    /\ lockFile = FALSE
    /\ denyFile = FALSE
    /\ approved = "none"
    /\ stdout = <<>>
    /\ callLog = <<[sent |-> InitialMessages, reply |-> ReplyDanger]>>
    /\ events = << [it |-> 1, ev |-> "head", danger |-> FALSE],
                   [it |-> 1, ev |-> "call", danger |-> FALSE],
                   [it |-> 1, ev |-> "cmd", danger |-> FALSE],
                   [it |-> 1, ev |-> "gate", danger |-> FALSE] >>
    /\ gate = GateIdle
    /\ peer = [pc |-> "g_lock", waited |-> 0, approved |-> "none", removed |-> <<>>]

UnchangedAgent ==
    UNCHANGED <<pc, hitl, iters, messages, response, cmd, waited, approved, stdout,
                callLog, events, gate>>

\* the second instance: if os.path.exists(lock_file) (agent.py:108)
PeerCheckLock ==
    /\ peer.pc = "g_lock"
    /\ peer' = [peer EXCEPT !.pc = IF lockFile THEN "g_rmlock" ELSE "g_deny"]
    /\ UNCHANGED <<lockFile, denyFile>>
    /\ UnchangedAgent

\* the second instance: os.remove(lock_file); return True (agent.py:109-111)
PeerRemoveLock ==
    /\ peer.pc = "g_rmlock"
    /\ IF lockFile
       THEN /\ lockFile' = FALSE
            /\ peer' = [peer EXCEPT !.pc = "g_ret", !.approved = "approved",
                                    !.removed = Append(@, "lock")]
       ELSE /\ peer' = [peer EXCEPT !.pc = "fault"]
            /\ UNCHANGED lockFile
    /\ UNCHANGED denyFile
    /\ UnchangedAgent

\* the second instance: if os.path.exists(deny_file); else time.sleep(1);
\* waited += 1; while waited < 600; return False (agent.py:112, 116-118, 107)
PeerCheckDeny ==
    /\ peer.pc = "g_deny"
    /\ IF denyFile
       THEN peer' = [peer EXCEPT !.pc = "g_rmdeny"]
       ELSE /\ GateReturned \/ peer.waited - waited < MaxDrift
            /\ peer' = [peer EXCEPT
                    !.waited = @ + 1,
                    !.pc = IF peer.waited + 1 < PollCeiling THEN "g_lock" ELSE "g_ret",
                    !.approved = IF peer.waited + 1 < PollCeiling THEN @ ELSE "denied"]
    /\ UNCHANGED <<lockFile, denyFile>>
    /\ UnchangedAgent

\* the second instance: os.remove(deny_file); return False (agent.py:113-115)
PeerRemoveDeny ==
    /\ peer.pc = "g_rmdeny"
    /\ IF denyFile
       THEN /\ denyFile' = FALSE
            /\ peer' = [peer EXCEPT !.pc = "g_ret", !.approved = "denied",
                                    !.removed = Append(@, "deny")]
       ELSE /\ peer' = [peer EXCEPT !.pc = "fault"]
            /\ UNCHANGED denyFile
    /\ UNCHANGED lockFile
    /\ UnchangedAgent

\* this instance's poll, its sleep held back while it is ahead of the other
RaceGateCheckDeny ==
    /\ denyFile \/ PeerReturned \/ waited - peer.waited < MaxDrift
    /\ GateCheckDeny

\* no marker has been created yet
NoSignalYet ==
    ~lockFile /\ ~denyFile /\ gate.removed = <<>> /\ peer.removed = <<>>

\* the human creates a single marker
RaceHumanApprove == NoSignalYet /\ HumanApprove

RaceHumanDeny == NoSignalYet /\ HumanDeny

RaceNext ==
    \/ GateCheckLock
    \/ GateRemoveLock
    \/ RaceGateCheckDeny
    \/ GateRemoveDeny
    \/ PeerCheckLock
    \/ PeerRemoveLock
    \/ PeerCheckDeny
    \/ PeerRemoveDeny
    \/ RaceHumanApprove
    \/ RaceHumanDeny

RaceSpec == RaceInit /\ [][RaceNext]_vars

\* C17: when two instances wait on the same marker paths and a human creates
\* one marker, neither instance faults on removing a marker the other has
\* removed, at most one of them removes the marker, and only the one that
\* removed it returns the marker's decision: the other has not returned, or
\* has returned denied at the poll ceiling.
C17_OneConsumer ==
    /\ pc # "fault" /\ peer.pc # "fault"
    /\ Len(gate.removed) + Len(peer.removed) <= 1
    /\ gate.removed # <<>> /\ peer.pc = "g_ret" =>
            peer.approved = "denied" /\ peer.waited = PollCeiling
    /\ peer.removed # <<>> /\ pc = "g_ret" =>
            approved = "denied" /\ waited = PollCeiling

----------------------------------------------------------------------------
(* The gate within the loop *)

\* the positions inside wait_for_approval
GatePcs == {"g_lock", "g_rmlock", "g_deny", "g_rmdeny"}

\* a step of the agent, not of the environment
AgentStep == pc' # pc

\* inside the gate the command is a dangerous text and oversight is enabled
C18_InGate ==
    pc \in GatePcs => hitl /\ Truthy(cmd) /\ IsText(cmd) /\ is_dangerous(cmd.s)

\* the branch enters the gate exactly under the three conditions; a step of
\* the agent outside the gate observes no marker and leaves both in place
C18_Steps ==
    /\ pc = "branch" /\ AgentStep =>
        (pc' = "g_lock" <=>
            Truthy(cmd) /\ IsText(cmd) /\ is_dangerous(cmd.s) /\ hitl)
    /\ pc \notin GatePcs /\ AgentStep =>
        /\ pc' \in GatePcs => pc = "branch" /\ pc' = "g_lock"
        /\ lockFile' = lockFile /\ denyFile' = denyFile
        /\ gate' = gate \/ gate' = GateIdle

\* C18: the gate is invoked in an iteration exactly when a command was
\* extracted, it is classified dangerous and oversight is enabled; in every
\* other iteration the loop neither observes nor removes either marker.
C18_GateOnlyWhenRequired == []C18_InGate /\ [][C18_Steps]_vars

\* with oversight disabled a dangerous command runs although the approved
\* marker is absent and the denied marker present, and no gate was entered
C18_Witness ==
    /\ ~hitl
    /\ Count("gate") = 0
    /\ denyFile /\ ~lockFile
    /\ \E i \in ExecEvents : events[i].danger

----------------------------------------------------------------------------
(* A run that starts with a leftover approved marker (agent.py:103, 108):  *)
(* oversight is enabled, /tmp/hermit_approval.lock exists before the first *)
(* approval request, and nobody creates an approved marker during the run. *)

StaleInit ==
    /\ pc = "loop"
    /\ hitl = TRUE
    /\ iters = 0
    /\ messages = InitialMessages
    /\ response = JNull
    /\ cmd = JNull
    /\ waited = 0
    /\ lockFile = TRUE
    /\ denyFile = FALSE
    /\ approved = "none"
    /\ stdout = <<>>
    /\ callLog = <<>>
    /\ events = <<>>
    /\ gate = GateIdle
    /\ peer = PeerIdle

StaleNext ==
    \/ Agent
    \/ HumanDeny
    \/ ExternalRemoveLock
    \/ ExternalRemoveDeny

StaleSpec == StaleInit /\ [][StaleNext]_vars

\* C19: a dangerous command is executed under oversight only on an approved
\* marker created after its approval request began; so in a run where the
\* only approved marker is one that existed before any request, no dangerous
\* command is executed.
C19_NoStaleApproval ==
    \A i \in ExecEvents : ~events[i].danger

----------------------------------------------------------------------------
(* A run that starts with both markers present (agent.py:103-104) and in   *)
(* which nothing but the agent touches them: no human signal arrives.      *)

BothInit ==
    /\ pc = "loop"
    /\ hitl = TRUE
    /\ iters = 0
    /\ messages = InitialMessages
    /\ response = JNull
    /\ cmd = JNull
    /\ waited = 0
    /\ lockFile = TRUE
    /\ denyFile = TRUE
    /\ approved = "none"
    /\ stdout = <<>>
    /\ callLog = <<>>
    /\ events = <<>>
    /\ gate = GateIdle
    /\ peer = PeerIdle

\* response = call_llm(messages), with any number of dangerous proposals in
\* the run (agent.py:161, 120-136)
CallLLMAnyReply ==
    /\ pc = "call"
    /\ \E r \in Replies :
        /\ response' = r
        /\ callLog' = Append(callLog, [sent |-> messages, reply |-> r])
    /\ events' = Append(events, Ev("call"))
    /\ pc' = "reply"
    /\ UNCHANGED <<hitl, iters, messages, cmd, waited, lockFile, denyFile,
                   approved, stdout, gate, peer>>

BothNext ==
    \/ LoopHead
    \/ CallLLMAnyReply
    \/ ReadReply
    \/ Branch
    \/ GateCheckLock
    \/ GateRemoveLock
    \/ GateCheckDeny
    \/ GateRemoveDeny
    \/ AfterGate
    \/ Execute
    \/ EmitFinal

BothSpec == BothInit /\ [][BothNext]_vars

\* the first gate has returned approved at its first poll, having removed
\* the approved marker only; the second has returned denied at its first poll
C20_AtReturn ==
    pc = "g_ret" =>
        /\ Count("gate") = 1 =>
            /\ approved = "approved"
            /\ gate.polls = 1
            /\ gate.removed = <<[m |-> "lock", at |-> 0]>>
            /\ ~lockFile /\ denyFile
        /\ Count("gate") = 2 =>
            /\ approved = "denied"
            /\ gate.polls = 1 /\ waited = 0
            /\ gate.removed = <<[m |-> "deny", at |-> 0]>>

\* a poll that finds both markers goes on to remove the approved one, and
\* that removal returns approved and leaves the denied marker in place
C20_Steps ==
    /\ pc = "g_lock" /\ lockFile /\ denyFile /\ AgentStep => pc' = "g_rmlock"
    /\ pc = "g_rmlock" /\ lockFile /\ denyFile /\ AgentStep =>
        /\ pc' = "g_ret" /\ approved' = "approved"
        /\ ~lockFile' /\ denyFile'

\* C20: when both markers exist at the same poll the gate returns approved,
\* removes the approved marker only and leaves the denied marker in place, so
\* that the next gate invocation returns denied at its first poll without
\* any new human signal.
C20_ApprovedWinsDeniedStays == []C20_AtReturn /\ [][C20_Steps]_vars

\* the second gate of the run has returned denied at its first poll
C20_Witness ==
    /\ pc = "g_ret"
    /\ Count("gate") = 2
    /\ approved = "denied"
    /\ gate.polls = 1
    /\ ~lockFile /\ ~denyFile

====
